---- MODULE Spec2Model ----
(***************************************************************************)
(* Model of config.py, the configuration module of the Meta Ads API        *)
(* project.  The module body is a straight line of six assignment          *)
(* statements executed once at import; afterwards the bound objects are    *)
(* used by importing code.  Python values are modelled with their type tag *)
(* so that a claim about the type of an entry is something the check can   *)
(* refute.                                                                 *)
(***************************************************************************)
EXTENDS Integers, Sequences, FiniteSets, TLC

VARIABLES
    pc,        \* the module-level statement about to be executed
    globals,   \* the module namespace: name -> value (Unbound before its statement ran)
    got,       \* the value the importing reader obtained last
    rstate,    \* retry client: "ready", "responded" or "done"
    attempts,  \* retry client: requests sent so far
    status,    \* retry client: status code of the last response (0: none yet)
    delay,     \* retry client: the last back-off delay computed
    writes     \* number of mutating operations importers have applied

vars == <<pc, globals, got, rstate, attempts, status, delay, writes>>

----------------------------------------------------------------------------
(* Python values *)

str(s) == [t |-> "str", v |-> s]
int(n) == [t |-> "int", v |-> n]
bool(b) == [t |-> "bool", v |-> b]
list(q) == [t |-> "list", v |-> q]
dict(f) == [t |-> "dict", v |-> f]
Unbound == [t |-> "unbound"]
None == [t |-> "NoneType"]

\* A dict display {k1: v1, ..., kn: vn}: the keys are the distinct k's and a
\* repeated key keeps the value written last.
DictDisplay(items) ==
    LET keys == {items[i][1] : i \in 1..Len(items)}
        last(k) == CHOOSE i \in 1..Len(items) :
                       /\ items[i][1] = k
                       /\ \A j \in (i+1)..Len(items) : items[j][1] # k
    IN  dict([k \in keys |-> items[last(k)][2]])

RECURSIVE Digits(_)
Digits(n) ==
    LET d == SubSeq("0123456789", (n % 10) + 1, (n % 10) + 1)
    IN  IF n < 10 THEN d ELSE Digits(n \div 10) \o d

\* format(x, "") as an f-string replacement field applies it: a str is
\* inserted as it is, an int as its decimal digits.
FormatValue(x) ==
    IF x.t = "str" THEN x.v
    ELSE IF x.v < 0 THEN "-" \o Digits(0 - x.v) ELSE Digits(x.v)

----------------------------------------------------------------------------
(* The right-hand sides of the six assignments *)

Names == {"FB_API_VERSION", "FB_BASE_URL", "DEFAULT_API_FIELDS",
          "API_RETRY_CONFIG", "LOGGING_CONFIG", "BIGQUERY_CONFIG"}

FB_API_VERSION == str("v20.0")

\* the version written out a second time, one release behind
FB_BASE_URL_Pinned(env) == str("https://graph.facebook.com/v19.0")

\* f"https://graph.facebook.com/{FB_API_VERSION}": the name is looked up in
\* the namespace when the statement runs.
FB_BASE_URL(env) ==
    str("https://graph.facebook.com/" \o FormatValue(env["FB_API_VERSION"]))

\* "adset_id" pasted where "ad_id" belongs
DEFAULT_API_FIELDS_Dup ==
    list(<<str("spend"), str("cpc"), str("cpm"), str("objective"),
           str("adset_name"), str("adset_id"), str("clicks"),
           str("campaign_name"), str("campaign_id"), str("conversions"),
           str("frequency"), str("conversion_values"), str("ad_name"),
           str("adset_id")>>)

DEFAULT_API_FIELDS ==
    list(<<str("spend"), str("cpc"), str("cpm"), str("objective"),
           str("adset_name"), str("adset_id"), str("clicks"),
           str("campaign_name"), str("campaign_id"), str("conversions"),
           str("frequency"), str("conversion_values"), str("ad_name"),
           str("ad_id")>>)

\* 429 (rate limited) added to the retryable codes
API_RETRY_CONFIG_With429 ==
    DictDisplay(<< <<"total", int(3)>>,
                   <<"backoff_factor", int(1)>>,
                   <<"status_forcelist",
                     list(<<int(429), int(500), int(502), int(503), int(504)>>)>> >>)

\* the attempt count written as a string
API_RETRY_CONFIG_StrTotal ==
    DictDisplay(<< <<"total", str("3")>>,
                   <<"backoff_factor", int(1)>>,
                   <<"status_forcelist",
                     list(<<int(500), int(502), int(503), int(504)>>)>> >>)

\* a negative back-off multiplier
API_RETRY_CONFIG_NegBackoff ==
    DictDisplay(<< <<"total", int(3)>>,
                   <<"backoff_factor", int(-1)>>,
                   <<"status_forcelist",
                     list(<<int(500), int(502), int(503), int(504)>>)>> >>)

API_RETRY_CONFIG ==
    DictDisplay(<< <<"total", int(3)>>,
                   <<"backoff_factor", int(1)>>,
                   <<"status_forcelist",
                     list(<<int(500), int(502), int(503), int(504)>>)>> >>)

\* the level in lower case and the stream handler listed twice
LOGGING_CONFIG_BadNames ==
    DictDisplay(<< <<"level", str("info")>>,
                   <<"format", str("%(asctime)s - %(levelname)s - %(message)s")>>,
                   <<"handlers", list(<<str("StreamHandler"), str("StreamHandler")>>)>>,
                   <<"log_file", str("meta_ads.log")>> >>)

\* the file handler kept, the path left empty
LOGGING_CONFIG_NoFile ==
    DictDisplay(<< <<"level", str("INFO")>>,
                   <<"format", str("%(asctime)s - %(levelname)s - %(message)s")>>,
                   <<"handlers", list(<<str("FileHandler"), str("StreamHandler")>>)>>,
                   <<"log_file", str("")>> >>)

LOGGING_CONFIG ==
    DictDisplay(<< <<"level", str("INFO")>>,
                   <<"format", str("%(asctime)s - %(levelname)s - %(message)s")>>,
                   <<"handlers", list(<<str("FileHandler"), str("StreamHandler")>>)>>,
                   <<"log_file", str("meta_ads.log")>> >>)

\* a batch size of zero
BIGQUERY_CONFIG_ZeroChunk ==
    DictDisplay(<< <<"if_exists", str("replace")>>,
                   <<"chunksize", int(0)>> >>)

\* a conflict mode the sink does not know
BIGQUERY_CONFIG_Overwrite ==
    DictDisplay(<< <<"if_exists", str("overwrite")>>,
                   <<"chunksize", int(10000)>> >>)

BIGQUERY_CONFIG ==
    DictDisplay(<< <<"if_exists", str("replace")>>,
                   <<"chunksize", int(10000)>> >>)

----------------------------------------------------------------------------
(* Module load: one action per assignment statement *)

\* a binding that starts from an empty namespace and so drops the names bound before
AssignFresh(env, name, value) ==
    [n \in DOMAIN env |-> IF n = name THEN value ELSE Unbound]

\* NAME = value: binds the name in the module namespace, leaving the others.
Assign(env, name, value) == [env EXCEPT ![name] = value]

Init ==
    /\ pc = "FB_API_VERSION"
    /\ globals = [n \in Names |-> Unbound]
    /\ got = None
    /\ rstate = "ready"
    /\ attempts = 0
    /\ status = 0
    /\ delay = 0
    /\ writes = 0

Step(name, value, next) ==
    /\ pc = name
    /\ globals' = Assign(globals, name, value)
    /\ pc' = next
    /\ UNCHANGED <<got, rstate, attempts, status, delay, writes>>

BindVersion == Step("FB_API_VERSION", FB_API_VERSION, "FB_BASE_URL")
BindBaseUrl == Step("FB_BASE_URL", FB_BASE_URL(globals), "DEFAULT_API_FIELDS")
BindFields == Step("DEFAULT_API_FIELDS", DEFAULT_API_FIELDS, "API_RETRY_CONFIG")
BindRetry == Step("API_RETRY_CONFIG", API_RETRY_CONFIG, "LOGGING_CONFIG")
BindLogging == Step("LOGGING_CONFIG", LOGGING_CONFIG, "BIGQUERY_CONFIG")
BindBigQuery == Step("BIGQUERY_CONFIG", BIGQUERY_CONFIG, "loaded")

Load ==
    \/ BindVersion
    \/ BindBaseUrl
    \/ BindFields
    \/ BindRetry
    \/ BindLogging
    \/ BindBigQuery

----------------------------------------------------------------------------
(* Importing code that reads the configuration.  The objects are referenced   *)
(* by name, positionally, by key and by membership.                           *)

Loaded == pc = "loaded"

\* config.NAME
LoadAttr(name) ==
    /\ Loaded
    /\ got' = globals[name]
    /\ UNCHANGED <<pc, globals, rstate, attempts, status, delay, writes>>

\* seq[i] for a list: positions 0..len-1, and -len..-1 counted from the end.
ListItem(q, i) == IF i < 0 THEN q[Len(q) + i + 1] ELSE q[i + 1]

ListGetItem(i) ==
    /\ Loaded
    /\ got.t = "list"
    /\ got' = ListItem(got.v, i)
    /\ UNCHANGED <<pc, globals, rstate, attempts, status, delay, writes>>

\* mapping[key]
DictGetItem(k) ==
    /\ Loaded
    /\ got.t = "dict"
    /\ got' = got.v[k]
    /\ UNCHANGED <<pc, globals, rstate, attempts, status, delay, writes>>

Probes == {str("spend"), str("ctr"), str("FileHandler"), int(500), int(501)}

\* x in seq
Contains(x) ==
    /\ Loaded
    /\ got.t = "list"
    /\ got' = bool(\E i \in 1..Len(got.v) : got.v[i] = x)
    /\ UNCHANGED <<pc, globals, rstate, attempts, status, delay, writes>>

\* the subscripts that do not raise IndexError on the object held
Indices == IF got.t = "list" THEN (0 - Len(got.v))..(Len(got.v) - 1) ELSE {}

Keys == IF got.t = "dict" THEN DOMAIN got.v ELSE {}

Read ==
    \/ \E name \in Names : LoadAttr(name)
    \/ \E i \in Indices : ListGetItem(i)
    \/ \E k \in Keys : DictGetItem(k)
    \/ \E x \in Probes : Contains(x)

----------------------------------------------------------------------------
(* A client that applies the retry policy: it repeats a request answered   *)
(* with a listed status code, at most "total" times, sleeping the back-off *)
(* delay before each retry.                                                *)

Statuses == {200, 404, 500, 501, 502, 503, 504}

RECURSIVE Pow2(_)
Pow2(n) == IF n = 0 THEN 1 ELSE 2 * Pow2(n - 1)

RetryTotal == globals["API_RETRY_CONFIG"].v["total"].v
BackoffFactor == globals["API_RETRY_CONFIG"].v["backoff_factor"].v
StatusForcelist == globals["API_RETRY_CONFIG"].v["status_forcelist"].v

Forced(code) == \E i \in 1..Len(StatusForcelist) : StatusForcelist[i].v = code

\* retries already used up: every request but the first was a retry
Retries == attempts - 1

SendRequest(code) ==
    /\ Loaded
    /\ rstate = "ready"
    /\ attempts' = attempts + 1
    /\ status' = code
    /\ rstate' = "responded"
    /\ UNCHANGED <<pc, globals, got, delay, writes>>

Retry ==
    /\ Loaded
    /\ rstate = "responded"
    /\ Forced(status)
    /\ Retries < RetryTotal
    /\ delay' = BackoffFactor * Pow2(Retries)
    /\ rstate' = "ready"
    /\ UNCHANGED <<pc, globals, got, attempts, status, writes>>

Finish ==
    /\ Loaded
    /\ rstate = "responded"
    /\ ~(Forced(status) /\ Retries < RetryTotal)
    /\ rstate' = "done"
    /\ UNCHANGED <<pc, globals, got, attempts, status, delay, writes>>

Client ==
    \/ \E code \in Statuses : SendRequest(code)
    \/ Retry
    \/ Finish

Next ==
    \/ Load
    \/ Read
    \/ Client

Spec == Init /\ [][Next]_vars

----------------------------------------------------------------------------
(* What the bound objects allow an importer to do besides reading: the     *)
(* field list is a list object, the three policies are dict objects and    *)
(* the names are attributes of the module object.                          *)

MaxWrites == 1

NewValues == {str(""), str("spend"), int(0)}

Mappings == {"API_RETRY_CONFIG", "LOGGING_CONFIG", "BIGQUERY_CONFIG"}

CanWrite == Loaded /\ writes < MaxWrites

\* config.DEFAULT_API_FIELDS[i] = x
FieldsSetItem(i, x) ==
    /\ CanWrite
    /\ globals["DEFAULT_API_FIELDS"].t = "list"
    /\ i \in 0..(Len(globals["DEFAULT_API_FIELDS"].v) - 1)
    /\ globals' = [globals EXCEPT !["DEFAULT_API_FIELDS"].v[i + 1] = x]
    /\ writes' = writes + 1
    /\ UNCHANGED <<pc, got, rstate, attempts, status, delay>>

\* config.DEFAULT_API_FIELDS.append(x)
FieldsAppend(x) ==
    /\ CanWrite
    /\ globals["DEFAULT_API_FIELDS"].t = "list"
    /\ globals' = [globals EXCEPT !["DEFAULT_API_FIELDS"].v = Append(@, x)]
    /\ writes' = writes + 1
    /\ UNCHANGED <<pc, got, rstate, attempts, status, delay>>

\* config.<mapping>[k] = x: replaces the entry of a present key, adds a new one
DictSetItem(name, k, x) ==
    /\ CanWrite
    /\ globals[name].t = "dict"
    /\ globals' = [globals EXCEPT ![name].v =
                       [j \in DOMAIN @ \cup {k} |-> IF j = k THEN x ELSE @[j]]]
    /\ writes' = writes + 1
    /\ UNCHANGED <<pc, got, rstate, attempts, status, delay>>

\* config.NAME = x
SetAttr(name, x) ==
    /\ CanWrite
    /\ globals' = [globals EXCEPT ![name] = x]
    /\ writes' = writes + 1
    /\ UNCHANGED <<pc, got, rstate, attempts, status, delay>>

Mutate ==
    \/ \E i \in {0, 5, 13}, x \in NewValues : FieldsSetItem(i, x)
    \/ \E x \in NewValues : FieldsAppend(x)
    \/ \E name \in Mappings, k \in {"total", "log_file", "chunksize", "extra"},
          x \in NewValues : DictSetItem(name, k, x)
    \/ \E name \in Names, x \in NewValues : SetAttr(name, x)

NextMutable ==
    \/ Load
    \/ Read
    \/ Mutate

SpecMutable == Init /\ [][NextMutable]_vars

----------------------------------------------------------------------------
(* Properties *)

Bound(name) == globals[name].t # "unbound"

RECURSIVE LastSlash(_, _)
LastSlash(s, i) ==
    IF i = 0 THEN 0
    ELSE IF SubSeq(s, i, i) = "/" THEN i ELSE LastSlash(s, i - 1)

\* the text after the last "/" of s
LastSegment(s) == SubSeq(s, LastSlash(s, Len(s)) + 1, Len(s))

Distinct(q) == \A i, j \in 1..Len(q) : i # j => q[i] # q[j]

Elems(q) == {q[i] : i \in 1..Len(q)}

\* C1: once FB_BASE_URL is bound it is the string "https://graph.facebook.com/"
\* followed by the value of FB_API_VERSION, and the version is the URL's last
\* path segment.
UrlEmbedsVersion ==
    Bound("FB_BASE_URL") =>
        LET ver == globals["FB_API_VERSION"]
            url == globals["FB_BASE_URL"]
        IN  /\ ver.t = "str"
            /\ url.t = "str"
            /\ url.v = "https://graph.facebook.com/" \o ver.v
            /\ LastSegment(url.v) = ver.v

UrlBound ==
    /\ Bound("FB_BASE_URL")
    /\ globals["FB_API_VERSION"].v = "v20.0"
    /\ Len(globals["FB_BASE_URL"].v) = 32

\* C2: the field list holds no entry twice and every entry is a string of
\* length at least 1.
FieldsDistinctNonEmpty ==
    Bound("DEFAULT_API_FIELDS") =>
        LET f == globals["DEFAULT_API_FIELDS"]
        IN  /\ f.t = "list"
            /\ \A i \in 1..Len(f.v) : f.v[i].t = "str" /\ Len(f.v[i].v) >= 1
            /\ Distinct(f.v)

LastFieldRead ==
    /\ Loaded
    /\ Len(globals["DEFAULT_API_FIELDS"].v) = 14
    /\ got = str("ad_id")

\* C3: "total" is an integer >= 1 and every element of "status_forcelist" is
\* an integer in 500..599.
RetryTotalAndServerErrors ==
    Bound("API_RETRY_CONFIG") =>
        LET c == globals["API_RETRY_CONFIG"].v
        IN  /\ c["total"].t = "int"
            /\ c["total"].v >= 1
            /\ \A x \in Elems(c["status_forcelist"].v) :
                   x.t = "int" /\ x.v \in 500..599

RetriedOnListedCode ==
    /\ rstate = "ready"
    /\ attempts = 1
    /\ status = 503

\* C4: "chunksize" is an integer >= 1.
ChunksizePositive ==
    Bound("BIGQUERY_CONFIG") =>
        LET n == globals["BIGQUERY_CONFIG"].v["chunksize"]
        IN  n.t = "int" /\ n.v >= 1

ChunksizeRead == Loaded /\ got = int(10000)

\* C6: the retry policy has exactly the keys "total", "backoff_factor" and
\* "status_forcelist"; "total" is an integer, "backoff_factor" a number, and
\* "status_forcelist" a collection of HTTP status integers none of which
\* occurs twice.
RetryConfigShape ==
    Bound("API_RETRY_CONFIG") =>
        LET c == globals["API_RETRY_CONFIG"]
        IN  /\ c.t = "dict"
            /\ DOMAIN c.v = {"total", "backoff_factor", "status_forcelist"}
            /\ c.v["total"].t = "int"
            /\ c.v["backoff_factor"].t \in {"int", "float"}
            /\ c.v["status_forcelist"].t = "list"
            /\ \A x \in Elems(c.v["status_forcelist"].v) :
                   x.t = "int" /\ x.v \in 100..599
            /\ Distinct(c.v["status_forcelist"].v)

RetryConfigRead ==
    /\ Loaded
    /\ got.t = "dict"
    /\ "status_forcelist" \in DOMAIN got.v

\* C7: the bulk-load policy has exactly the keys "if_exists" and "chunksize";
\* "if_exists" is one of "fail", "replace", "append", namely "replace".
BigQueryShape ==
    Bound("BIGQUERY_CONFIG") =>
        LET c == globals["BIGQUERY_CONFIG"]
        IN  /\ c.t = "dict"
            /\ DOMAIN c.v = {"if_exists", "chunksize"}
            /\ c.v["if_exists"] \in {str("fail"), str("replace"), str("append")}
            /\ c.v["if_exists"] = str("replace")

IfExistsRead == Loaded /\ got = str("replace")

\* C8: the logging policy has exactly the keys "level", "format", "handlers"
\* and "log_file"; "level" is a standard level name, "handlers" a list of
\* names from FileHandler and StreamHandler without repetition, "log_file" a
\* string.
LoggingShape ==
    Bound("LOGGING_CONFIG") =>
        LET c == globals["LOGGING_CONFIG"]
        IN  /\ c.t = "dict"
            /\ DOMAIN c.v = {"level", "format", "handlers", "log_file"}
            /\ c.v["level"] \in {str("DEBUG"), str("INFO"), str("WARNING"),
                                 str("ERROR"), str("CRITICAL")}
            /\ c.v["handlers"].t = "list"
            /\ Elems(c.v["handlers"].v) \subseteq
                   {str("FileHandler"), str("StreamHandler")}
            /\ Distinct(c.v["handlers"].v)
            /\ c.v["log_file"].t = "str"

HandlersRead ==
    /\ Loaded
    /\ got.t = "list"
    /\ str("StreamHandler") \in Elems(got.v)

\* C9: when "FileHandler" is among the handlers, "log_file" is a non-empty
\* string.
FileHandlerHasLogFile ==
    Bound("LOGGING_CONFIG") =>
        LET c == globals["LOGGING_CONFIG"].v
        IN  str("FileHandler") \in Elems(c["handlers"].v) =>
                c["log_file"].t = "str" /\ Len(c["log_file"].v) >= 1

FileHandlerConfigured ==
    /\ Loaded
    /\ str("FileHandler") \in Elems(globals["LOGGING_CONFIG"].v["handlers"].v)
    /\ got = globals["LOGGING_CONFIG"].v["log_file"]

\* C10: "backoff_factor" is non-negative and "status_forcelist" is not
\* empty; the client that retries at most "total" times on a listed code
\* sends at most total + 1 requests and never computes a negative delay.
RetryBounded ==
    Bound("API_RETRY_CONFIG") =>
        /\ BackoffFactor >= 0
        /\ Len(StatusForcelist) >= 1
        /\ attempts <= RetryTotal + 1
        /\ delay >= 0

RetriesExhausted ==
    /\ rstate = "done"
    /\ attempts = RetryTotal + 1
    /\ Forced(status)
    /\ delay = 4

\* C5 as stated: once the module is loaded no step changes the configuration.
ConfigNeverChanges == [][Loaded => globals' = globals]_vars

\* C5 as amended: a bound name changes its value only in a step in which an
\* importer applies a mutating operation (item assignment, append, attribute
\* assignment); module load and reads leave every bound name as it is.
ConfigChangesOnlyByWrite ==
    [][\A n \in Names :
          (Bound(n) /\ globals'[n] # globals[n]) => Mutate]_vars

ReadWithoutWrite ==
    /\ Loaded
    /\ writes = 0
    /\ got = str("v20.0")
    /\ globals["DEFAULT_API_FIELDS"] = DEFAULT_API_FIELDS
====
